---- MODULE Spec2Model ----
(***************************************************************************)
(* Model of haystack/retriever/tfidf.py: TfidfRetriever.                   *)
(*                                                                         *)
(* A text is a sequence of one-character strings.  The document table is   *)
(* a sequence of records [id, text].  The retriever object holds           *)
(* paragraphs, df, the vectorizer's vocabulary and tfidf_matrix.           *)
(*                                                                         *)
(* sklearn's TfidfVectorizer is modelled by its analyzer (lowercase, then  *)
(* the token pattern \b\w\w+\b) and by term-count vectors over the fitted  *)
(* vocabulary; the idf weights and the L2 normalisation, which are real    *)
(* numbers, are left out, so a score is the integer dot product of two     *)
(* count vectors.  Ranking, filtering and truncation are modelled as the   *)
(* code performs them on whatever scores it gets.                          *)
(***************************************************************************)
EXTENDS Integers, Sequences, FiniteSets, TLC

(***************************************************************************)
(* Bounds                                                                  *)
(***************************************************************************)
MaxDocs == 2
MaxTopK == 2

\* the default of retrieve's top_k parameter
DefaultTopK == 10

(***************************************************************************)
(* Characters and texts                                                    *)
(***************************************************************************)
NL == "\n"
SP == " "

Whitespace == {NL, SP}

WordChars == {"a", "b", "x", "A", "B"}

Lower(c) == IF c = "A" THEN "a" ELSE IF c = "B" THEN "b" ELSE c

Min(a, b) == IF a < b THEN a ELSE b

Max(a, b) == IF a > b THEN a ELSE b

RECURSIVE LStrip(_)
LStrip(s) ==
    IF s = <<>> THEN <<>>
    ELSE IF Head(s) \in Whitespace THEN LStrip(Tail(s))
    ELSE s

RECURSIVE RStrip(_)
RStrip(s) ==
    IF s = <<>> THEN <<>>
    ELSE IF s[Len(s)] \in Whitespace THEN RStrip(SubSeq(s, 1, Len(s) - 1))
    ELSE s

\* str.strip()
Strip(s) == RStrip(LStrip(s))

\* str.split("\n\n"): cut at each non-overlapping occurrence of the
\* two-character separator, scanning left to right
RECURSIVE Split(_)
Split(s) ==
    LET hits == {i \in 1..(Len(s) - 1) : s[i] = NL /\ s[i + 1] = NL}
    IN  IF hits = {} THEN <<s>>
        ELSE LET i == CHOOSE j \in hits : \A k \in hits : j <= k
             IN  <<SubSeq(s, 1, i - 1)>> \o Split(SubSeq(s, i + 2, Len(s)))

\* " ".join(x) for a tuple x of texts
RECURSIVE Join(_)
Join(x) ==
    IF x = <<>> THEN <<>>
    ELSE IF Len(x) = 1 THEN x[1]
    ELSE x[1] \o <<SP>> \o Join(Tail(x))

(***************************************************************************)
(* The document table read by db.session.query(Document).all()             *)
(***************************************************************************)
\* "Aa\n\nbb\n\n\nab aa": three units, the third cut after two of three newlines
TextThree == <<"A", "a", NL, NL, "b", "b", NL, NL, NL, "a", "b", SP, "a", "a">>

\* " aa bb": no blank line, leading blank
TextOne == <<SP, "a", "a", SP, "b", "b">>

\* " \n": whitespace only
TextBlank == <<SP, NL>>

\* "x\n\n\n\n ": one unit without any token, then two blank units
TextNoToken == <<"x", NL, NL, NL, NL, SP>>

Texts == {TextThree, TextOne, TextBlank, TextNoToken}

DocIds == 1..MaxDocs

TextSeqs == UNION {[1..n -> Texts] : n \in 0..MaxDocs}

Tables == {[i \in 1..Len(ts) |-> [id |-> i, text |-> ts[i]]] : ts \in TextSeqs}

\* "Aa", "ab"
Queries == {<<"A", "a">>, <<"a", "b">>}

(***************************************************************************)
(* _get_all_paragraphs                                                     *)
(***************************************************************************)
\* variant: the counter also advances over a skipped blank unit
RECURSIVE ParagraphsOfUnitsCountingBlanks(_, _, _, _)
ParagraphsOfUnitsCountingBlanks(units, doc_id, acc, p_id) ==
    IF units = <<>> THEN [paragraphs |-> acc, p_id |-> p_id]
    ELSE IF Strip(Head(units)) = <<>>
         THEN ParagraphsOfUnitsCountingBlanks(Tail(units), doc_id, acc, p_id + 1)
         ELSE ParagraphsOfUnitsCountingBlanks(Tail(units), doc_id,
                  Append(acc, [paragraph_id |-> p_id, document_id |-> doc_id,
                               text |-> <<Head(units)>>]),
                  p_id + 1)

\* the inner loop over doc.text.split("\n\n"): units still to visit, the
\* paragraphs emitted so far and the running p_id
RECURSIVE ParagraphsOfUnits(_, _, _, _)
ParagraphsOfUnits(units, doc_id, acc, p_id) ==
    IF units = <<>> THEN [paragraphs |-> acc, p_id |-> p_id]
    ELSE IF Strip(Head(units)) = <<>>
         THEN ParagraphsOfUnits(Tail(units), doc_id, acc, p_id)
         ELSE ParagraphsOfUnits(Tail(units), doc_id,
                  Append(acc, [paragraph_id |-> p_id, document_id |-> doc_id,
                               text |-> <<Head(units)>>]),
                  p_id + 1)

\* the outer loop over documents
RECURSIVE ParagraphsOfDocs(_, _, _)
ParagraphsOfDocs(documents, acc, p_id) ==
    IF documents = <<>> THEN acc
    ELSE LET doc == Head(documents)
             r == ParagraphsOfUnits(Split(doc.text), doc.id, acc, p_id)
         IN  ParagraphsOfDocs(Tail(documents), r.paragraphs, r.p_id)

GetAllParagraphs(documents) == ParagraphsOfDocs(documents, <<>>, 0)

(***************************************************************************)
(* The vectorizer                                                          *)
(***************************************************************************)
\* token_pattern (?u)\b\w\w+\b over the lowercased text: the maximal runs of
\* word characters that are at least two characters long
RECURSIVE TokenScan(_, _, _)
TokenScan(s, cur, acc) ==
    LET flush == IF Len(cur) >= 2 THEN Append(acc, cur) ELSE acc
    IN  IF s = <<>> THEN flush
        ELSE IF Head(s) \in WordChars
             THEN TokenScan(Tail(s), Append(cur, Lower(Head(s))), acc)
             ELSE TokenScan(Tail(s), <<>>, flush)

Tokenize(s) == TokenScan(s, <<>>, <<>>)

TermCount(t, toks) == Cardinality({i \in 1..Len(toks) : toks[i] = t})

\* the vocabulary learnt by fit_transform
VocabularyOf(texts) ==
    UNION {{Tokenize(texts[i])[j] : j \in 1..Len(Tokenize(texts[i]))} : i \in 1..Len(texts)}

\* vectorizer.transform: out-of-vocabulary tokens are dropped
Transform(vocab, s) == [t \in vocab |-> TermCount(t, Tokenize(s))]

RECURSIVE SumOver(_, _, _)
SumOver(S, u, v) ==
    IF S = {} THEN 0
    ELSE LET t == CHOOSE e \in S : TRUE
         IN  u[t] * v[t] + SumOver(S \ {t}, u, v)

\* one entry of tfidf_matrix.dot(question_vector.T)
Dot(u, v) == SumOver(DOMAIN u, u, v)

(***************************************************************************)
(* fit                                                                     *)
(***************************************************************************)
\* pd.DataFrame.from_dict(self.paragraphs): one row per paragraph, labelled
\* 0..n-1 in list order
FrameOf(ps) ==
    [i \in 1..Len(ps) |-> [label |-> i - 1,
                           paragraph_id |-> ps[i].paragraph_id,
                           document_id |-> ps[i].document_id,
                           text |-> ps[i].text]]

\* self.df["text"].apply(lambda x: " ".join(x))
JoinTexts(frame) ==
    [i \in 1..Len(frame) |-> [frame[i] EXCEPT !.text = Join(frame[i].text)]]

TextColumn(frame) == [i \in 1..Len(frame) |-> frame[i].text]

\* The fields fit() leaves behind, given the fields before the call.  An
\* empty paragraph list gives a frame without columns and df["text"] raises
\* KeyError; an empty vocabulary makes fit_transform raise ValueError.
FitFields(ps, old) ==
    LET frame == FrameOf(ps)
        joined == JoinTexts(frame)
        vocab == VocabularyOf(TextColumn(joined))
    IN  IF Len(ps) = 0
        THEN [old EXCEPT !.df = frame, !.outcome = "KeyError"]
        ELSE IF vocab = {}
        THEN [old EXCEPT !.df = joined, !.outcome = "ValueError"]
        ELSE [df |-> joined,
              fitted |-> TRUE,
              vocabulary |-> vocab,
              tfidf_matrix |-> [i \in 1..Len(joined) |-> Transform(vocab, joined[i].text)],
              outcome |-> "ok"]

\* the fields between "self.df = None" and "self.fit()" in __init__: no
\* vocabulary and no tfidf_matrix yet
Unfitted ==
    [df |-> <<>>, fitted |-> FALSE, vocabulary |-> {}, tfidf_matrix |-> <<>>,
     outcome |-> "ok"]

\* variant: a constructor that leaves fitting to the caller
ConstructedWithoutFit(documents) ==
    [paragraphs |-> GetAllParagraphs(documents), df |-> Unfitted.df,
     fitted |-> Unfitted.fitted, vocabulary |-> Unfitted.vocabulary,
     tfidf_matrix |-> Unfitted.tfidf_matrix, outcome |-> "ok"]

\* __init__: read the paragraphs, then fit
Constructed(documents) ==
    LET ps == GetAllParagraphs(documents)
        f == FitFields(ps, Unfitted)
    IN  [paragraphs |-> ps, df |-> f.df, fitted |-> f.fitted,
         vocabulary |-> f.vocabulary, tfidf_matrix |-> f.tfidf_matrix,
         outcome |-> f.outcome]

(***************************************************************************)
(* _calc_scores and retrieve                                               *)
(***************************************************************************)
\* variant: a descending sort that reverses the input order of equal scores
InsertDescReversingTies(acc, e) ==
    LET k == Cardinality({i \in 1..Len(acc) : acc[i][2] > e[2]})
    IN  SubSeq(acc, 1, k) \o <<e>> \o SubSeq(acc, k + 1, Len(acc))

\* where sorted(..., reverse=True) puts one more pair: behind every pair
\* whose score is not smaller, so equal scores keep their input order
InsertDesc(acc, e) ==
    LET k == Cardinality({i \in 1..Len(acc) : acc[i][2] >= e[2]})
    IN  SubSeq(acc, 1, k) \o <<e>> \o SubSeq(acc, k + 1, Len(acc))

RECURSIVE SortFrom(_, _)
SortFrom(rest, acc) ==
    IF rest = <<>> THEN acc
    ELSE SortFrom(Tail(rest), InsertDesc(acc, Head(rest)))

\* sorted(idx_scores, key=(lambda tup: tup[1]), reverse=True)
SortedDesc(idx_scores) == SortFrom(idx_scores, <<>>)

Scores(matrix, vocab, q) ==
    LET question_vector == Transform(vocab, q)
    IN  [i \in 1..Len(matrix) |-> Dot(matrix[i], question_vector)]

\* the keys of indices_and_scores, in dictionary order
CalcScores(matrix, vocab, q) ==
    LET scores == Scores(matrix, vocab, q)
        idx_scores == [i \in 1..Len(scores) |-> <<i - 1, scores[i]>>]
        sorted == SortedDesc(idx_scores)
    IN  [k \in 1..Len(sorted) |-> sorted[k][1]]

\* self.df.loc[keys]: the rows with these labels, in the order of the keys
Loc(frame, keys) ==
    [k \in 1..Len(keys) |-> frame[CHOOSE i \in 1..Len(frame) : frame[i].label = keys[k]]]

NoCandidates == [given |-> FALSE, ids |-> {}]

CandidateSets == {NoCandidates} \cup {[given |-> TRUE, ids |-> D] : D \in SUBSET DocIds}

\* "if candidate_doc_ids:" is false for None and for an empty collection
Truthy(c) == c.given /\ c.ids # {}

RECURSIVE IsIn(_, _)
IsIn(rows, ids) ==
    IF rows = <<>> THEN <<>>
    ELSE IF Head(rows).document_id \in ids
         THEN <<Head(rows)>> \o IsIn(Tail(rows), ids)
         ELSE IsIn(Tail(rows), ids)

\* variant: the filtered frame is put back into index order
FilterRowsSortingIndex(rows, c) ==
    IF Truthy(c)
    THEN LET kept == IsIn(rows, c.ids)
             Rank(r) == Cardinality({j \in 1..Len(kept) : kept[j].label <= r.label})
         IN  [k \in 1..Len(kept) |-> kept[CHOOSE i \in 1..Len(kept) : Rank(kept[i]) = k]]
    ELSE rows

\* df_sliced[df_sliced.document_id.isin(candidate_doc_ids)]
FilterRows(rows, c) == IF Truthy(c) THEN IsIn(rows, c.ids) ELSE rows

\* variant: an inclusive stop
TruncateInclusive(rows, k) ==
    IF k >= 0 THEN SubSeq(rows, 1, Min(k + 1, Len(rows)))
    ELSE SubSeq(rows, 1, Max(0, Len(rows) + k + 1))

\* df_sliced[:top_k], a Python slice: a negative stop counts from the end
Truncate(rows, k) ==
    IF k >= 0 THEN SubSeq(rows, 1, Min(k, Len(rows)))
    ELSE SubSeq(rows, 1, Max(0, Len(rows) + k))

Sliced(frame, matrix, vocab, q, c, k) ==
    Truncate(FilterRows(Loc(frame, CalcScores(matrix, vocab, q)), c), k)

\* list(df_sliced.text.values)
ParagraphTexts(rows) == [i \in 1..Len(rows) |-> rows[i].text]

\* variant: paragraph_id taken from the position in the sliced frame
MetaDataByPosition(rows) ==
    [i \in 1..Len(rows) |-> [document_id |-> rows[i].document_id,
                             paragraph_id |-> i - 1]]

\* the meta_data comprehension over df_sliced.iterrows()
MetaData(rows) ==
    [i \in 1..Len(rows) |-> [document_id |-> rows[i].document_id,
                             paragraph_id |-> rows[i].paragraph_id]]

(***************************************************************************)
(* State                                                                   *)
(***************************************************************************)
VARIABLES
    db,                 \* the rows of the Document table
    alive,              \* the caller holds a constructed retriever
    paragraphs,         \* self.paragraphs
    df,                 \* self.df
    fitted,             \* the vectorizer has a vocabulary and tfidf_matrix exists
    vocabulary,         \* self.vectorizer.vocabulary_
    tfidf_matrix,       \* self.tfidf_matrix
    lastOp,             \* the last call: "init", "fit", "retrieve", "change"
    outcome,            \* "ok" or the exception the last call raised
    query,              \* arguments of the last retrieve
    candidate_doc_ids,
    top_k,
    ret_paragraphs,     \* what the last retrieve returned
    ret_meta

self == <<paragraphs, df, fitted, vocabulary, tfidf_matrix>>

call == <<query, candidate_doc_ids, top_k, ret_paragraphs, ret_meta>>

vars == <<db, alive, self, lastOp, outcome, call>>

NoCall ==
    /\ query' = <<>>
    /\ candidate_doc_ids' = NoCandidates
    /\ top_k' = 0
    /\ ret_paragraphs' = <<>>
    /\ ret_meta' = <<>>

TopKs == ((-1)..MaxTopK) \cup {DefaultTopK}

\* TfidfRetriever(): the object exists only if __init__ did not raise
Construct ==
    LET c == Constructed(db)
    IN  /\ paragraphs' = c.paragraphs
        /\ df' = c.df
        /\ fitted' = c.fitted
        /\ vocabulary' = c.vocabulary
        /\ tfidf_matrix' = c.tfidf_matrix
        /\ outcome' = c.outcome
        /\ alive' = (c.outcome = "ok")
        /\ lastOp' = "init"
        /\ NoCall
        /\ UNCHANGED db

Init ==
    /\ db \in Tables
    /\ LET c == Constructed(db)
       IN  /\ paragraphs = c.paragraphs
           /\ df = c.df
           /\ fitted = c.fitted
           /\ vocabulary = c.vocabulary
           /\ tfidf_matrix = c.tfidf_matrix
           /\ outcome = c.outcome
           /\ alive = (c.outcome = "ok")
    /\ lastOp = "init"
    /\ query = <<>>
    /\ candidate_doc_ids = NoCandidates
    /\ top_k = 0
    /\ ret_paragraphs = <<>>
    /\ ret_meta = <<>>

\* retriever.fit()
Fit ==
    /\ alive
    /\ LET f == FitFields(paragraphs,
                    [df |-> df, fitted |-> fitted, vocabulary |-> vocabulary,
                     tfidf_matrix |-> tfidf_matrix, outcome |-> "ok"])
       IN  /\ df' = f.df
           /\ fitted' = f.fitted
           /\ vocabulary' = f.vocabulary
           /\ tfidf_matrix' = f.tfidf_matrix
           /\ outcome' = f.outcome
    /\ lastOp' = "fit"
    /\ NoCall
    /\ UNCHANGED <<db, alive, paragraphs>>

\* retriever.retrieve(q, candidate_doc_ids=c, top_k=k); transform() of a
\* vectorizer that was never fitted raises sklearn's NotFittedError
Retrieve(q, c, k) ==
    /\ alive
    /\ query' = q
    /\ candidate_doc_ids' = c
    /\ top_k' = k
    /\ IF fitted
       THEN LET df_sliced == Sliced(df, tfidf_matrix, vocabulary, q, c, k)
            IN  /\ ret_paragraphs' = ParagraphTexts(df_sliced)
                /\ ret_meta' = MetaData(df_sliced)
                /\ outcome' = "ok"
       ELSE /\ ret_paragraphs' = <<>>
            /\ ret_meta' = <<>>
            /\ outcome' = "NotFittedError"
    /\ lastOp' = "retrieve"
    /\ UNCHANGED <<db, alive, self>>

\* The document collection changes behind the retriever's back: a document
\* is added, the newest one is deleted, or the text of one is replaced.
Changed ==
    /\ lastOp' = "change"
    /\ outcome' = "ok"
    /\ NoCall
    /\ UNCHANGED <<alive, self>>

AddDocument(t) ==
    /\ Len(db) < MaxDocs
    /\ db' = Append(db, [id |-> Len(db) + 1, text |-> t])
    /\ Changed

DeleteDocument ==
    /\ db # <<>>
    /\ db' = SubSeq(db, 1, Len(db) - 1)
    /\ Changed

UpdateDocument(i, t) ==
    /\ i \in 1..Len(db)
    /\ db[i].text # t
    /\ db' = [db EXCEPT ![i].text = t]
    /\ Changed

\* Queries against one document collection, with every combination of
\* arguments.
NextQuery ==
    \/ Construct
    \/ Fit
    \/ \E q \in Queries, c \in CandidateSets, k \in TopKs : Retrieve(q, c, k)

SpecQuery == Init /\ [][NextQuery]_vars

\* The retriever over a document collection that changes; retrieve is called
\* with its default arguments.
Next ==
    \/ Construct
    \/ Fit
    \/ \E q \in Queries : Retrieve(q, NoCandidates, DefaultTopK)
    \/ \E t \in Texts : AddDocument(t)
    \/ DeleteDocument
    \/ \E i \in DocIds, t \in Texts : UpdateDocument(i, t)

Spec == Init /\ [][Next]_vars

(***************************************************************************)
(* Properties                                                              *)
(***************************************************************************)
Retrieved == alive /\ lastOp = "retrieve" /\ outcome = "ok"

\* the score the fitted model gives a text for the last query
ScoreOfText(s) == Dot(Transform(vocabulary, s), Transform(vocabulary, query))

\* what retrieve returns without a candidate filter, for the last query and top_k
UnfilteredRows == Sliced(df, tfidf_matrix, vocabulary, query, NoCandidates, top_k)

\* C1: with a non-empty candidate set D and top_k at least the number of
\* paragraphs, retrieve returns exactly the paragraphs whose document_id is
\* in D, in the relative order they have in the unfiltered result.
C1_FilterKeepsOrder ==
    (Retrieved /\ Truthy(candidate_doc_ids) /\ top_k >= Len(paragraphs)) =>
        LET InD(m) == m.document_id \in candidate_doc_ids.ids
        IN  /\ ret_meta = SelectSeq(MetaData(UnfilteredRows), InD)
            /\ {ret_meta[i].paragraph_id : i \in 1..Len(ret_meta)}
                 = {paragraphs[i].paragraph_id : i \in {j \in 1..Len(paragraphs) : InD(paragraphs[j])}}
            /\ Len(ret_paragraphs) = Len(ret_meta)

C1_Witness ==
    /\ Retrieved /\ Truthy(candidate_doc_ids) /\ top_k >= Len(paragraphs)
    /\ Len(ret_meta) >= 2
    /\ Len(ret_meta) < Len(paragraphs)
    /\ \E i, j \in 1..Len(ret_meta) :
          i < j /\ ret_meta[i].paragraph_id > ret_meta[j].paragraph_id

\* the paragraphs that pass the candidate filter of the last retrieve
Surviving ==
    {i \in 1..Len(paragraphs) :
        Truthy(candidate_doc_ids) => paragraphs[i].document_id \in candidate_doc_ids.ids}

\* C2: for a positive top_k the number of results is the smaller of top_k and
\* the number of paragraphs that pass the candidate filter, whatever their
\* scores.
C2_TopK ==
    (Retrieved /\ top_k > 0) =>
        /\ Len(ret_meta) = Min(top_k, Cardinality(Surviving))
        /\ Len(ret_paragraphs) = Len(ret_meta)

C2_Witness ==
    /\ Retrieved /\ top_k > 0 /\ Truthy(candidate_doc_ids)
    /\ Len(ret_meta) = top_k
    /\ top_k < Cardinality(Surviving)
    /\ Cardinality(Surviving) < Len(paragraphs)
    /\ \E i \in 1..Len(ret_paragraphs) : ScoreOfText(ret_paragraphs[i]) = 0

\* C3: the result is in descending score order, and of two returned
\* paragraphs with the same score the one with the smaller paragraph_id
\* comes first.
C3_Ranking ==
    Retrieved =>
        \A i, j \in 1..Len(ret_meta) :
            i < j =>
                \/ ScoreOfText(ret_paragraphs[i]) > ScoreOfText(ret_paragraphs[j])
                \/ /\ ScoreOfText(ret_paragraphs[i]) = ScoreOfText(ret_paragraphs[j])
                   /\ ret_meta[i].paragraph_id < ret_meta[j].paragraph_id

C3_Witness ==
    /\ Retrieved
    /\ \E i, j \in 1..Len(ret_meta) :
          /\ i < j
          /\ ScoreOfText(ret_paragraphs[i]) = ScoreOfText(ret_paragraphs[j])
          /\ ScoreOfText(ret_paragraphs[i]) > 0
    /\ \E i, j \in 1..Len(ret_meta) :
          /\ i < j
          /\ ScoreOfText(ret_paragraphs[i]) > ScoreOfText(ret_paragraphs[j])
          /\ ret_meta[i].paragraph_id > ret_meta[j].paragraph_id

\* the segmentation the specification describes: cut at every run of two or
\* more newlines
RECURSIVE SplitAtBlankLines(_)
SplitAtBlankLines(s) ==
    LET hits == {i \in 1..(Len(s) - 1) : s[i] = NL /\ s[i + 1] = NL}
    IN  IF hits = {} THEN <<s>>
        ELSE LET i == CHOOSE j \in hits : \A k \in hits : j <= k
                 rest == SubSeq(s, i + 2, Len(s))
                 run == IF \A k \in 1..Len(rest) : rest[k] = NL THEN Len(rest)
                        ELSE (CHOOSE k \in 1..Len(rest) :
                                 rest[k] # NL /\ \A m \in 1..(k - 1) : rest[m] = NL) - 1
             IN  <<SubSeq(s, 1, i - 1)>>
                    \o SplitAtBlankLines(SubSeq(rest, run + 1, Len(rest)))

RECURSIVE TrimmedNonEmpty(_)
TrimmedNonEmpty(units) ==
    IF units = <<>> THEN <<>>
    ELSE IF Strip(Head(units)) = <<>> THEN TrimmedNonEmpty(Tail(units))
    ELSE <<Strip(Head(units))>> \o TrimmedNonEmpty(Tail(units))

TrimmedUnits(s) == TrimmedNonEmpty(SplitAtBlankLines(s))

\* the texts of the paragraphs segmentation emitted for one document
RECURSIVE TextsOfDocument(_, _)
TextsOfDocument(ps, doc_id) ==
    IF ps = <<>> THEN <<>>
    ELSE IF Head(ps).document_id = doc_id
         THEN <<Join(Head(ps).text)>> \o TextsOfDocument(Tail(ps), doc_id)
         ELSE TextsOfDocument(Tail(ps), doc_id)

\* C4: segmentation emits, for each document and in order, exactly the
\* trimmed non-empty units between runs of two or more newlines; no emitted
\* text has leading or trailing whitespace.
C4_TrimmedUnits ==
    lastOp = "init" =>
        \A d \in 1..Len(db) :
            TextsOfDocument(paragraphs, db[d].id) = TrimmedUnits(db[d].text)

RECURSIVE NonBlankUnits(_)
NonBlankUnits(documents) ==
    IF documents = <<>> THEN 0
    ELSE LET units == Split(Head(documents).text)
         IN  Cardinality({k \in 1..Len(units) : Strip(units[k]) # <<>>})
                + NonBlankUnits(Tail(documents))

\* C5: the paragraph_id values are 0, 1, ..., n-1 in emission order, documents
\* in iteration order, and n is the number of non-blank units: a skipped
\* blank unit consumes no id.
C5_SequentialIds ==
    /\ \A i \in 1..Len(paragraphs) : paragraphs[i].paragraph_id = i - 1
    /\ \A i, j \in 1..Len(paragraphs) :
          i < j => paragraphs[i].document_id <= paragraphs[j].document_id
    /\ lastOp = "init" => Len(paragraphs) = NonBlankUnits(db)

C5_Witness ==
    /\ lastOp = "init"
    /\ alive
    /\ Len(paragraphs) >= 2
    /\ \E d \in 1..Len(db) :
          /\ db[d].text = TextNoToken
          /\ \E i \in 1..Len(paragraphs) : paragraphs[i].document_id > db[d].id

\* C6: retrieve with top_k <= 0 fails with InvalidArgumentError and returns
\* nothing.
C6_NonPositiveTopKFails ==
    (alive /\ lastOp = "retrieve" /\ top_k <= 0) =>
        /\ outcome = "InvalidArgumentError"
        /\ ret_paragraphs = <<>>
        /\ ret_meta = <<>>

\* C7: over a document collection that yields zero paragraphs, construction
\* raises no error and retrieve returns an empty result.
C7_EmptyCorpusNoError ==
    (lastOp \in {"init", "retrieve"} /\ paragraphs = <<>>) =>
        /\ outcome = "ok"
        /\ alive
        /\ ret_paragraphs = <<>>
        /\ ret_meta = <<>>

\* C8: after fit() the paragraphs, the index and the matrix are those of the
\* current document collection.
C8_FitRereadsDocuments ==
    (alive /\ lastOp = "fit") =>
        /\ paragraphs = GetAllParagraphs(db)
        /\ df = Constructed(db).df
        /\ tfidf_matrix = Constructed(db).tfidf_matrix

C10_Aligned ==
    /\ [](alive =>
            /\ Len(df) = Len(paragraphs)
            /\ Len(tfidf_matrix) = Len(df)
            /\ \A i \in 1..Len(df) :
                  /\ df[i].label = i - 1
                  /\ df[i].paragraph_id = i - 1
                  /\ df[i].document_id = paragraphs[i].document_id
                  /\ df[i].text = Join(paragraphs[i].text)
                  /\ tfidf_matrix[i] = Transform(vocabulary, df[i].text))
    /\ [](Retrieved =>
            /\ Len(ret_paragraphs) = Len(ret_meta)
            /\ \A k \in 1..Len(ret_meta) :
                  LET p == ret_meta[k].paragraph_id
                  IN  /\ p \in 0..(Len(df) - 1)
                      /\ ret_paragraphs[k] = df[p + 1].text
                      /\ ret_meta[k].document_id = df[p + 1].document_id)
    /\ [][lastOp' = "retrieve" => UNCHANGED self]_vars

C10_Witness ==
    /\ Retrieved
    /\ Len(ret_meta) >= 2
    /\ ret_meta[1].paragraph_id > ret_meta[2].paragraph_id
    /\ ret_meta[1].document_id # ret_meta[2].document_id

====
